---- MODULE Spec2Model ----
(***************************************************************************)
(* Session-lifecycle manager of pi_server (src/app.py): the session table  *)
(* _stream_sessions, its lock _stream_lock, the LED (physical pin and the   *)
(* tracked flag _led_state), the /camera/stream handler with its response  *)
(* generator, the /camera/stream/stop handler and the watchdog thread.      *)
(*                                                                         *)
(* Every Flask request runs on its own thread (app.run(threaded=True)), so  *)
(* handlers interleave at the granularity of the statements that are not    *)
(* protected by _stream_lock.  Time is a discrete clock `now`; the watchdog *)
(* scans whenever its sleep of P time units has elapsed and a scan itself   *)
(* takes no time.                                                          *)
(***************************************************************************)
EXTENDS Integers, FiniteSets, TLC

\* ---------------------------------------------------------------- bounds
NumThreads == 2          \* request threads serving /camera/stream
MaxIds     == 2          \* size of the pool uuid4() draws from
MaxTime    == 8          \* the clock stops here

\* ------------------------------------------------------------- constants
T_start == 5             \* app.py:173  never-yielded threshold
T_idle  == 3             \* app.py:178  idle threshold
P       == 2             \* app.py:197  watchdog sleep

Threads == 1..NumThreads
Ids     == 1..MaxIds
NoId    == 0             \* request without a session_id argument
None    == -1            \* Python None in last_yield
Free     == 0            \* _stream_lock not held; a request thread holds it as t
Admin    == NumThreads + 1   \* held by the /camera/stream/stop handler
Watchdog == NumThreads + 2   \* held by the watchdog thread

VARIABLES
    _stream_sessions,    \* app.py:94   sid -> [created, last_yield, active, led_on]
    _stream_lock,        \* app.py:95   Free or the holder
    _led_state,          \* app.py:96   tracked LED flag
    led,                 \* led.py:22   physical pin at ON_DUTY
    now,                 \* time.time()
    issued,              \* ids uuid4() has returned so far
    pc,                  \* request thread -> position in camera_stream / gen
    session_id,          \* request thread -> local session_id (app.py:226)
    resp,                \* request thread -> HTTP status of its current/last request
    admin_pc,            \* position of the /camera/stream/stop handler
    wd_pc,               \* watchdog: "sleep" or "blocked"
    next_scan,           \* time at which the watchdog's sleep(2) ends
    flash_pc,            \* position of a handler inside _flash_led_for_capture
    was_streaming,       \* app.py:147  its local was_streaming
    delivered,           \* request thread -> its response has carried a frame
    stamp                \* request thread -> time.time() read at app.py:273

\* state of the flash, of the frame consumers and of the heartbeat in flight
aux == <<flash_pc, was_streaming, delivered, stamp>>

vars == <<_stream_sessions, _stream_lock, _led_state, led, now, issued,
          pc, session_id, resp, admin_pc, wd_pc, next_scan,
          flash_pc, was_streaming, delivered, stamp>>

\* ------------------------------------------------------------ helpers
\* dict operations
Has(S, sid)    == sid \in DOMAIN S
Del(S, sid)    == [x \in (DOMAIN S) \ {sid} |-> S[x]]
Put(S, sid, v) == [x \in (DOMAIN S) \cup {sid} |-> IF x = sid THEN v ELSE S[x]]

\* Python truthiness of last_yield (None and 0.0 are falsy)
Truthy(x) == x # None /\ x # 0

\* any(s.get("led_on") for s in _stream_sessions.values())
reserved(S) == \E s \in DOMAIN S : S[s].led_on


\* ------------------------------------------------------------ Init
Init ==
    /\ _stream_sessions = [x \in {} |-> 0]
    /\ _stream_lock = Free
    /\ _led_state = FALSE
    /\ led = FALSE
    /\ now = 0
    /\ issued = {}
    /\ pc = [t \in Threads |-> "idle"]
    /\ session_id = [t \in Threads |-> NoId]
    /\ resp = [t \in Threads |-> 0]
    /\ admin_pc = "idle"
    /\ wd_pc = "sleep"
    /\ next_scan = 0
    /\ flash_pc = "idle"
    /\ was_streaming = FALSE
    /\ delivered = [t \in Threads |-> FALSE]
    /\ stamp = [t \in Threads |-> 0]

\* ------------------------------------------------------------ LED
\* _force_led_on / _force_led_off: the driver call then the flag
_force_led_on ==
    /\ led' = TRUE
    /\ _led_state' = TRUE

_force_led_off ==
    /\ led' = FALSE
    /\ _led_state' = FALSE

\* ------------------------------------------------------------ registry
\* mutant of uuid4: ids are not unique, an id returned before can come again
uuid4_reused(used) == Ids

\* uuid.uuid4(): an id that was never returned before
uuid4(used) == Ids \ used

\* the dict literal _create_session stores
NewSession(t0) ==
    [created |-> t0, last_yield |-> None, active |-> TRUE, led_on |-> FALSE]

\* the `if sid in _stream_sessions:` block of _stop_session (app.py:115-121)
_stop_session_table(S, sid) ==
    IF Has(S, sid) THEN Del(S, sid) ELSE S

\* ------------------------------------------------------------ /camera/stream
\* app.py:226  session_id = request.args.get('session_id')
\* id = NoId is a request without the argument (or with an empty one)
camera_stream_request(t, id) ==
    /\ pc[t] = "idle"
    /\ session_id' = [session_id EXCEPT ![t] = id]
    /\ resp' = [resp EXCEPT ![t] = 0]
    /\ pc' = [pc EXCEPT ![t] = "route"]
    /\ UNCHANGED aux
    /\ UNCHANGED <<_stream_sessions, _stream_lock, _led_state, led, now,
                   issued, admin_pc, wd_pc, next_scan>>

\* app.py:227-228, 102  no session_id: _create_session waits for the lock
_create_session_lock(t) ==
    /\ pc[t] = "route"
    /\ session_id[t] = NoId
    /\ _stream_lock = Free
    /\ _stream_lock' = t
    /\ pc' = [pc EXCEPT ![t] = "create"]
    /\ UNCHANGED aux
    /\ UNCHANGED <<_stream_sessions, _led_state, led, now, issued, session_id,
                   resp, admin_pc, wd_pc, next_scan>>

\* app.py:98-109  under the lock: insert the new entry, release, return sid
_create_session(t) ==
    /\ pc[t] = "create"
    /\ _stream_lock' = Free
    /\ \E sid \in uuid4(issued) :
         /\ _stream_sessions' = Put(_stream_sessions, sid, NewSession(now))
         /\ session_id' = [session_id EXCEPT ![t] = sid]
         /\ issued' = issued \cup {sid}
    /\ pc' = [pc EXCEPT ![t] = "led_on"]
    /\ UNCHANGED aux
    /\ UNCHANGED <<_led_state, led, now, resp, admin_pc, wd_pc, next_scan>>

\* mutant of camera_stream_reject: get-or-create, an unknown resume id is
\* registered instead of being rejected
camera_stream_reject_creates(t) ==
    /\ pc[t] = "route"
    /\ session_id[t] # NoId
    /\ ~Has(_stream_sessions, session_id[t])
    /\ _stream_sessions' = Put(_stream_sessions, session_id[t], NewSession(now))
    /\ pc' = [pc EXCEPT ![t] = "led_on"]
    /\ UNCHANGED aux
    /\ UNCHANGED <<_stream_lock, _led_state, led, now, issued, session_id,
                   resp, admin_pc, wd_pc, next_scan>>

\* app.py:232-233  unknown resume id -> 400
camera_stream_reject(t) ==
    /\ pc[t] = "route"
    /\ session_id[t] # NoId
    /\ ~Has(_stream_sessions, session_id[t])
    /\ resp' = [resp EXCEPT ![t] = 400]
    /\ pc' = [pc EXCEPT ![t] = "idle"]
    /\ session_id' = [session_id EXCEPT ![t] = NoId]
    /\ UNCHANGED aux
    /\ UNCHANGED <<_stream_sessions, _stream_lock, _led_state, led, now,
                   issued, admin_pc, wd_pc, next_scan>>

\* app.py:232  known resume id: fall through to line 234
camera_stream_resume(t) ==
    /\ pc[t] = "route"
    /\ session_id[t] # NoId
    /\ Has(_stream_sessions, session_id[t])
    /\ pc' = [pc EXCEPT ![t] = "resume_set"]
    /\ UNCHANGED aux
    /\ UNCHANGED <<_stream_sessions, _stream_lock, _led_state, led, now,
                   issued, session_id, resp, admin_pc, wd_pc, next_scan>>

\* a KeyError in the handler: Flask answers 500, no generator is created
KeyError(t) ==
    /\ resp' = [resp EXCEPT ![t] = 500]
    /\ pc' = [pc EXCEPT ![t] = "idle"]
    /\ session_id' = [session_id EXCEPT ![t] = NoId]

\* app.py:234  _stream_sessions[session_id]["active"] = True   (no lock)
camera_stream_set_active(t) ==
    /\ pc[t] = "resume_set"
    /\ IF Has(_stream_sessions, session_id[t])
       THEN /\ _stream_sessions' =
                 [_stream_sessions EXCEPT ![session_id[t]].active = TRUE]
            /\ pc' = [pc EXCEPT ![t] = "led_on"]
            /\ UNCHANGED <<session_id, resp>>
       ELSE /\ KeyError(t)
            /\ UNCHANGED _stream_sessions
    /\ UNCHANGED aux
    /\ UNCHANGED <<_stream_lock, _led_state, led, now, issued,
                   admin_pc, wd_pc, next_scan>>

\* app.py:238  _force_led_on()   (no lock)
camera_stream_led_on(t) ==
    /\ pc[t] = "led_on"
    /\ _force_led_on
    /\ pc' = [pc EXCEPT ![t] = "claim"]
    /\ UNCHANGED aux
    /\ UNCHANGED <<_stream_sessions, _stream_lock, now, issued, session_id,
                   resp, admin_pc, wd_pc, next_scan>>

\* app.py:239  _stream_sessions[session_id]["led_on"] = True   (no lock),
\* then 276-287: the response with the generator is returned
camera_stream_claim(t) ==
    /\ pc[t] = "claim"
    /\ IF Has(_stream_sessions, session_id[t])
       THEN /\ _stream_sessions' =
                 [_stream_sessions EXCEPT ![session_id[t]].led_on = TRUE]
            /\ pc' = [pc EXCEPT ![t] = "gen"]
            /\ resp' = [resp EXCEPT ![t] = 200]
            /\ UNCHANGED session_id
       ELSE /\ KeyError(t)
            /\ UNCHANGED _stream_sessions
    /\ UNCHANGED aux
    /\ UNCHANGED <<_stream_lock, _led_state, led, now, issued,
                   admin_pc, wd_pc, next_scan>>

\* ------------------------------------------------------------ gen()
\* camera.py:32  the parameters mjpeg_generator declares
mjpeg_generator_params == {"target_fps", "quality", "on_frame"}

\* app.py:247-252  the keywords gen() passes
gen_call_keywords == {"target_fps", "quality", "on_frame", "should_continue"}

\* Python binds arguments when a generator function is called: a keyword the
\* function does not declare raises TypeError at the call, before any of the
\* generator's body runs.
Binds(keywords, params) == keywords \subseteq params

\* First next() on gen(): the call at app.py:247 raises TypeError, which
\* `except Exception` (264) logs; control reaches the finally block (266-268)
\* with no frame produced and no on_frame call made.
gen_start(t) ==
    /\ pc[t] = "gen"
    /\ ~Binds(gen_call_keywords, mjpeg_generator_params)
    /\ pc' = [pc EXCEPT ![t] = "stop"]
    /\ UNCHANGED aux
    /\ UNCHANGED <<_stream_sessions, _stream_lock, _led_state, led, now,
                   issued, session_id, resp, admin_pc, wd_pc, next_scan>>

\* ------------------------------------------------------------ mjpeg_generator
\* The loop of camera.py:32-50 as it runs when mjpeg_generator is called with
\* keywords it declares (target_fps, quality, on_frame).  The program's own
\* call (gen_start above) never gets this far; these actions belong to
\* PacerSpec only, which examines the generator and _on_frame_session as they
\* are written.

\* app.py:270-273  _on_frame_session(sid), no lock
_on_frame_session(S, sid, t0) ==
    IF Has(S, sid) THEN [S EXCEPT ![sid].last_yield = t0] ELSE S

\* camera.py:34-37  the call binds, the camera is opened, next_time is set
mjpeg_generator_start(t) ==
    /\ pc[t] = "gen"
    /\ pc' = [pc EXCEPT ![t] = "capture"]
    /\ UNCHANGED aux
    /\ UNCHANGED <<_stream_sessions, _stream_lock, _led_state, led, now,
                   issued, session_id, resp, admin_pc, wd_pc, next_scan>>

\* camera.py:39-42, app.py:272-273  capture and encode, then on_frame() before
\* the yield: _on_frame_session evaluates time.time()
mjpeg_generator_capture(t) ==
    /\ pc[t] = "capture"
    /\ stamp' = [stamp EXCEPT ![t] = now]
    /\ pc' = [pc EXCEPT ![t] = "on_frame"]
    /\ UNCHANGED <<flash_pc, was_streaming, delivered>>
    /\ UNCHANGED <<_stream_sessions, _stream_lock, _led_state, led, now,
                   issued, session_id, resp, admin_pc, wd_pc, next_scan>>

\* app.py:273  ... and stores the value it read (no lock)
mjpeg_generator_on_frame(t) ==
    /\ pc[t] = "on_frame"
    /\ _stream_sessions' =
          _on_frame_session(_stream_sessions, session_id[t], stamp[t])
    /\ stamp' = [stamp EXCEPT ![t] = 0]
    /\ pc' = [pc EXCEPT ![t] = "yield"]
    /\ UNCHANGED <<flash_pc, was_streaming, delivered>>
    /\ UNCHANGED <<_stream_lock, _led_state, led, now, issued, session_id,
                   resp, admin_pc, wd_pc, next_scan>>

\* camera.py:39-41  capture_array() or encode_jpeg() raises: nothing in the
\* generator catches it, gen() logs it (app.py:264-265) and goes to finally
mjpeg_generator_capture_fails(t) ==
    /\ pc[t] = "capture"
    /\ pc' = [pc EXCEPT ![t] = "stop"]
    /\ UNCHANGED aux
    /\ UNCHANGED <<_stream_sessions, _stream_lock, _led_state, led, now,
                   issued, session_id, resp, admin_pc, wd_pc, next_scan>>

\* camera.py:43-50, app.py:255  the frame reaches the consumer, which asks for
\* the next one; the generator sleeps and loops without consulting anything
gen_yield(t) ==
    /\ pc[t] = "yield"
    /\ delivered' = [delivered EXCEPT ![t] = TRUE]
    /\ pc' = [pc EXCEPT ![t] = "capture"]
    /\ UNCHANGED <<flash_pc, was_streaming, stamp>>
    /\ UNCHANGED <<_stream_sessions, _stream_lock, _led_state, led, now,
                   issued, session_id, resp, admin_pc, wd_pc, next_scan>>

\* app.py:256-259  the client is gone: the exception arrives at the yield,
\* the loop breaks and the finally block runs
gen_disconnect(t) ==
    /\ pc[t] = "yield"
    /\ pc' = [pc EXCEPT ![t] = "stop"]
    /\ UNCHANGED aux
    /\ UNCHANGED <<_stream_sessions, _stream_lock, _led_state, led, now,
                   issued, session_id, resp, admin_pc, wd_pc, next_scan>>

\* ------------------------------------------------------------ _stop_session
\* app.py:111-124, called from gen()'s finally block (268).  The thread waits
\* at `with _stream_lock` (114); the body runs under the lock: the session, if
\* present, is marked inactive and deleted (after a _force_led_off() when it
\* held a claim, 117-118), and then _force_led_off() is called unconditionally
\* (123-124).
_stop_session_lock(t) ==
    /\ pc[t] = "stop"
    /\ _stream_lock = Free
    /\ _stream_lock' = t
    /\ pc' = [pc EXCEPT ![t] = "stopping"]
    /\ UNCHANGED aux
    /\ UNCHANGED <<_stream_sessions, _led_state, led, now, issued, session_id,
                   resp, admin_pc, wd_pc, next_scan>>

_stop_session(t) ==
    /\ pc[t] = "stopping"
    /\ _stream_lock' = Free
    /\ _stream_sessions' = _stop_session_table(_stream_sessions, session_id[t])
    /\ _force_led_off
    /\ pc' = [pc EXCEPT ![t] = "idle"]
    /\ session_id' = [session_id EXCEPT ![t] = NoId]
    /\ delivered' = [delivered EXCEPT ![t] = FALSE]
    /\ UNCHANGED <<flash_pc, was_streaming, stamp>>
    /\ UNCHANGED <<now, issued, resp, admin_pc, wd_pc, next_scan>>

\* ------------------------------------------------------------ /camera/stream/stop
\* a POST /camera/stream/stop arrives and waits at `with _stream_lock` (292)
stop_camera_stream_request ==
    /\ admin_pc = "idle"
    /\ admin_pc' = "acquire"
    /\ UNCHANGED aux
    /\ UNCHANGED <<_stream_sessions, _stream_lock, _led_state, led, now,
                   issued, pc, session_id, resp, wd_pc, next_scan>>

\* app.py:296-302  mark every session inactive, then _stream_sessions.clear()
stop_camera_stream_table(S) == [x \in {} |-> 0]

\* app.py:292  the handler gets the lock
stop_camera_stream_lock ==
    /\ admin_pc = "acquire"
    /\ _stream_lock = Free
    /\ _stream_lock' = Admin
    /\ admin_pc' = "locked"
    /\ UNCHANGED aux
    /\ UNCHANGED <<_stream_sessions, _led_state, led, now, issued, pc,
                   session_id, resp, wd_pc, next_scan>>

\* app.py:293-306  under the lock: clear the table, _force_led_off(); release
stop_camera_stream ==
    /\ admin_pc = "locked"
    /\ _stream_lock' = Free
    /\ _stream_sessions' = stop_camera_stream_table(_stream_sessions)
    /\ _force_led_off
    /\ admin_pc' = "idle"
    /\ UNCHANGED aux
    /\ UNCHANGED <<now, issued, pc, session_id, resp, wd_pc, next_scan>>

\* ------------------------------------------------------------ watchdog
\* mutant of IsStale: the thresholds are reached one time unit early
IsStale_eager(s, current_time) ==
    /\ s.active
    /\ \/ s.last_yield = None /\ current_time - s.created >= T_start
       \/ s.last_yield # None /\ Truthy(s.last_yield)
            /\ current_time - s.last_yield >= T_idle

\* app.py:171-181  the condition under which the scan calls _stop_session
IsStale(s, current_time) ==
    /\ s.active
    /\ \/ s.last_yield = None /\ current_time - s.created > T_start
       \/ s.last_yield # None /\ Truthy(s.last_yield)
            /\ current_time - s.last_yield > T_idle

\* app.py:170-181  the sessions the scan calls _stop_session for
stale_sessions(S, current_time) ==
    {sid \in DOMAIN S : IsStale(S[sid], current_time)}

\* a scan that finds nothing stale: stale_sessions stays empty, the lock is
\* released and the thread sleeps P (app.py:197)
_cleanup_stale_sessions_none ==
    /\ wd_pc = "sleep"
    /\ now >= next_scan
    /\ _stream_lock = Free
    /\ \A s \in DOMAIN _stream_sessions : ~IsStale(_stream_sessions[s], now)
    /\ next_scan' = now + P
    /\ UNCHANGED aux
    /\ UNCHANGED <<_stream_sessions, _stream_lock, _led_state, led, now,
                   issued, pc, session_id, resp, admin_pc, wd_pc>>

\* a scan that finds a stale session calls _stop_session (175/180) while it
\* holds _stream_lock (169).  threading.Lock is not reentrant: the thread
\* blocks at app.py:114 for ever, still holding the lock.
_cleanup_stale_sessions_reap ==
    /\ wd_pc = "sleep"
    /\ now >= next_scan
    /\ _stream_lock = Free
    /\ \E s \in DOMAIN _stream_sessions : IsStale(_stream_sessions[s], now)
    /\ _stream_lock' = Watchdog
    /\ wd_pc' = "blocked"
    /\ UNCHANGED aux
    /\ UNCHANGED <<_stream_sessions, _led_state, led, now, issued, pc,
                   session_id, resp, admin_pc, next_scan>>

\* ------------------------------------------------------------ capture flash
\* _flash_led_for_capture (app.py:144-162), called by /camera/snapshot (324)
\* and /camera/upload (339); it takes no lock.
\* 147-150: read the claims into was_streaming, first led_off()
_flash_led_for_capture_begin ==
    /\ flash_pc = "idle"
    /\ was_streaming' = reserved(_stream_sessions)
    /\ led' = FALSE
    /\ flash_pc' = "pulse"
    /\ UNCHANGED <<delivered, stamp>>
    /\ UNCHANGED <<_stream_sessions, _stream_lock, _led_state, now, issued,
                   pc, session_id, resp, admin_pc, wd_pc, next_scan>>

\* 151-155: sleep, led_on(), sleep, led_off(), sleep
_flash_led_for_capture_pulse ==
    /\ flash_pc = "pulse"
    /\ led' = FALSE
    /\ flash_pc' = "restore"
    /\ UNCHANGED <<was_streaming, delivered, stamp>>
    /\ UNCHANGED <<_stream_sessions, _stream_lock, _led_state, now, issued,
                   pc, session_id, resp, admin_pc, wd_pc, next_scan>>

\* 157-162: restore from was_streaming
_flash_led_for_capture_restore ==
    /\ flash_pc = "restore"
    /\ IF was_streaming
       THEN led' = TRUE /\ _led_state' = TRUE
       ELSE led' = led /\ _led_state' = FALSE
    /\ flash_pc' = "idle"
    /\ was_streaming' = FALSE
    /\ UNCHANGED <<delivered, stamp>>
    /\ UNCHANGED <<_stream_sessions, _stream_lock, now, issued,
                   pc, session_id, resp, admin_pc, wd_pc, next_scan>>

\* ------------------------------------------------------------ status queries
\* app.py:316  "led_on" in the answer of GET /camera/stream/state
camera_stream_state_led_on == reserved(_stream_sessions)

\* app.py:393  "led_on" in the answer of GET /led/status
led_status_led_on == _led_state

\* ------------------------------------------------------------ time
\* One time unit passes.  A due scan runs before time moves on (the scan is
\* instantaneous and the sleep is exactly P); a blocked watchdog lets time pass.
Tick ==
    /\ now < MaxTime
    /\ wd_pc = "blocked" \/ now < next_scan
    /\ now' = now + 1
    /\ UNCHANGED aux
    /\ UNCHANGED <<_stream_sessions, _stream_lock, _led_state, led, issued,
                   pc, session_id, resp, admin_pc, wd_pc, next_scan>>

\* ------------------------------------------------------------ specification
ThreadStep(t) ==
    \/ _create_session_lock(t)
    \/ _create_session(t)
    \/ camera_stream_reject(t)
    \/ camera_stream_resume(t)
    \/ camera_stream_set_active(t)
    \/ camera_stream_led_on(t)
    \/ camera_stream_claim(t)
    \/ gen_start(t)
    \/ _stop_session_lock(t)
    \/ _stop_session(t)

WatchdogStep ==
    \/ _cleanup_stale_sessions_none
    \/ _cleanup_stale_sessions_reap

Next ==
    \/ \E t \in Threads : \E id \in Ids \cup {NoId} : camera_stream_request(t, id)
    \/ \E t \in Threads : ThreadStep(t)
    \/ stop_camera_stream_request
    \/ stop_camera_stream_lock
    \/ stop_camera_stream
    \/ WatchdogStep
    \/ Tick

Spec == Init /\ [][Next]_vars

\* Fairness the scheduler gives: every thread that can take a step eventually
\* takes it, and a thread waiting for a lock that is released again and again
\* eventually gets it.  Requests and the passing of time are not obliged.
FairSpec ==
    /\ Spec
    /\ \A t \in Threads : WF_vars(ThreadStep(t))
    /\ \A t \in Threads : SF_vars(_create_session_lock(t))
    /\ \A t \in Threads : SF_vars(_stop_session_lock(t))
    /\ SF_vars(stop_camera_stream_lock)
    /\ WF_vars(stop_camera_stream)
    /\ WF_vars(WatchdogStep)

\* the program with the snapshot endpoints: the flash runs beside the streams
FlashStep ==
    \/ _flash_led_for_capture_begin
    \/ _flash_led_for_capture_pulse
    \/ _flash_led_for_capture_restore

NextFlash ==
    \/ Next
    \/ FlashStep

FlashSpec == Init /\ [][NextFlash]_vars

\* the session manager around a generator that runs its loop
PacerThreadStep(t) ==
    \/ _create_session_lock(t)
    \/ _create_session(t)
    \/ camera_stream_reject(t)
    \/ camera_stream_resume(t)
    \/ camera_stream_set_active(t)
    \/ camera_stream_led_on(t)
    \/ camera_stream_claim(t)
    \/ mjpeg_generator_start(t)
    \/ mjpeg_generator_capture(t)
    \/ mjpeg_generator_on_frame(t)
    \/ mjpeg_generator_capture_fails(t)
    \/ gen_yield(t)
    \/ gen_disconnect(t)
    \/ _stop_session_lock(t)
    \/ _stop_session(t)

NextPacer ==
    \/ \E t \in Threads : \E id \in Ids \cup {NoId} : camera_stream_request(t, id)
    \/ \E t \in Threads : PacerThreadStep(t)
    \/ stop_camera_stream_request
    \/ stop_camera_stream_lock
    \/ stop_camera_stream
    \/ WatchdogStep
    \/ Tick

PacerSpec == Init /\ [][NextPacer]_vars

TypeOK ==
    /\ DOMAIN _stream_sessions \subseteq Ids
    /\ _stream_lock \in {Free, Admin, Watchdog} \cup Threads
    /\ now \in 0..MaxTime
    /\ delivered \in [Threads -> BOOLEAN]
    /\ stamp \in [Threads -> 0..MaxTime]

\* one client at a time, served by request thread 1, which never resumes:
\* the frame loop, stop-all, the watchdog and the clock
ScanThreadStep(t) ==
    \/ _create_session_lock(t)
    \/ _create_session(t)
    \/ camera_stream_reject(t)
    \/ camera_stream_led_on(t)
    \/ camera_stream_claim(t)
    \/ mjpeg_generator_start(t)
    \/ mjpeg_generator_capture(t)
    \/ mjpeg_generator_on_frame(t)
    \/ mjpeg_generator_capture_fails(t)
    \/ gen_yield(t)
    \/ gen_disconnect(t)
    \/ _stop_session_lock(t)
    \/ _stop_session(t)

NextScan ==
    \/ \E id \in Ids \cup {NoId} : camera_stream_request(1, id)
    \/ ScanThreadStep(1)
    \/ stop_camera_stream_request
    \/ stop_camera_stream_lock
    \/ stop_camera_stream
    \/ WatchdogStep
    \/ Tick

ScanSpec == Init /\ [][NextScan]_vars

\* ============================================================ properties
\* thread t takes a step
Steps(t) == pc'[t] # pc[t]

\* thread t executes _stop_session
StopStep(t) == pc[t] = "stopping" /\ pc'[t] = "idle"

\* an operation completes: a start or resume is accepted (the response with
\* the generator is returned), a single-session stop returns, stop-all returns
OperationCompletes ==
    \/ \E t \in Threads : pc[t] = "claim" /\ pc'[t] = "gen"
    \/ \E t \in Threads : StopStep(t)
    \/ admin_pc = "locked" /\ admin_pc' = "idle"

\* C1: after each start, resume, single-session stop or stop-all completes,
\* the LED is on if and only if some registered session has led_on set.
C1_LedIffReserved ==
    [][OperationCompletes => (led' <=> reserved(_stream_sessions'))]_vars

\* C2: stopping session C while another registered session D holds an LED
\* claim and the LED is on leaves the LED on.
C2_StopKeepsLedForOther ==
    [][\A t \in Threads :
          ( /\ StopStep(t)
            /\ led
            /\ Has(_stream_sessions, session_id[t])
            /\ _stream_sessions[session_id[t]].led_on
            /\ \E d \in DOMAIN _stream_sessions :
                  d # session_id[t] /\ _stream_sessions[d].led_on )
          => led']_vars

\* C3: a stop-all request, whatever the state it arrives in, completes and
\* leaves the registry empty and the LED off.
C3_StopAllCompletes ==
    (admin_pc = "acquire")
        ~> (admin_pc = "idle" /\ DOMAIN _stream_sessions = {} /\ ~led)

\* C4: a session without a heartbeat is gone from the registry once more than
\* T_start + P time units have passed since its creation.
C4_ReapedWithinStartBound ==
    \A s \in DOMAIN _stream_sessions :
        _stream_sessions[s].last_yield = None
            => now - _stream_sessions[s].created <= T_start + P

\* C6: a create inserts exactly one new entry under an id that no registered
\* session and no other request in progress has, with active set, no
\* heartbeat and no LED claim, and leaves every other entry as it was.
C6_CreateFresh ==
    [][\A t \in Threads :
          (pc[t] = "create" /\ Steps(t))
          => LET sid == session_id'[t] IN
             /\ sid \in Ids
             /\ sid \notin DOMAIN _stream_sessions
             /\ \A u \in Threads \ {t} :
                   pc[u] \notin {"idle", "route"} => session_id[u] # sid
             /\ DOMAIN _stream_sessions' = DOMAIN _stream_sessions \cup {sid}
             /\ _stream_sessions'[sid] =
                   [created |-> now, last_yield |-> None,
                    active |-> TRUE, led_on |-> FALSE]
             /\ \A x \in DOMAIN _stream_sessions :
                   _stream_sessions'[x] = _stream_sessions[x]]_vars

\* two creates have run side by side: both threads hold their new id, the two
\* entries are registered and neither has been claimed yet
C6_Witness ==
    \E t, u \in Threads :
        /\ t # u
        /\ pc[t] = "led_on" /\ pc[u] = "led_on"
        /\ session_id[t] # session_id[u]
        /\ {session_id[t], session_id[u]} \subseteq DOMAIN _stream_sessions
        /\ ~_stream_sessions[session_id[t]].led_on
        /\ ~_stream_sessions[session_id[u]].led_on
        /\ Cardinality(DOMAIN _stream_sessions) = 2

\* C7: a stream request whose resume id is not registered is answered 400
\* and changes neither the registry nor the LED.
C7_UnknownResumeRejected ==
    [][\A t \in Threads :
          ( /\ pc[t] = "route"
            /\ session_id[t] # NoId
            /\ ~Has(_stream_sessions, session_id[t])
            /\ Steps(t) )
          => /\ resp'[t] = 400
             /\ pc'[t] = "idle"
             /\ _stream_sessions' = _stream_sessions
             /\ led' = led
             /\ _led_state' = _led_state]_vars

\* a resume was rejected while another session is registered with the LED on
C7_Witness ==
    \E t \in Threads :
        /\ resp[t] = 400
        /\ pc[t] = "idle"
        /\ led
        /\ reserved(_stream_sessions)

\* C8: _stop_session for an id that is not registered changes neither the
\* registry nor the LED.
C8_StopAbsentIsNoop ==
    [][\A t \in Threads :
          (StopStep(t) /\ ~Has(_stream_sessions, session_id[t]))
          => _stream_sessions' = _stream_sessions /\ led' = led]_vars

\* C9: once a pacer loop has exited (the generator is in its finally block),
\* its session is eventually gone from the registry.
C9_StoppedAfterLoopExit ==
    \A t \in Threads : \A s \in Ids :
        (pc[t] \in {"stop", "stopping"} /\ session_id[t] = s)
            ~> (s \notin DOMAIN _stream_sessions)

\* C10: a pacer loop that exits while its session is still registered and
\* active (nobody stopped it) has recorded a heartbeat, i.e. delivered a frame.
C10_FrameBeforeExit ==
    \A t \in Threads :
        ( /\ pc[t] \in {"stop", "stopping"}
          /\ Has(_stream_sessions, session_id[t])
          /\ _stream_sessions[session_id[t]].active )
        => _stream_sessions[session_id[t]].last_yield # None

\* the thread that takes the step holds _stream_lock
StepperHoldsLock ==
    /\ _stream_lock # Free
    /\ \A t \in Threads : Steps(t) => _stream_lock = t
    /\ admin_pc' # admin_pc => _stream_lock = Admin
    /\ wd_pc' # wd_pc => _stream_lock = Watchdog

\* C11: every step that changes the session table (insert, delete, update of
\* a field) is taken by a thread that holds _stream_lock.
C11_WritesUnderLock ==
    [][_stream_sessions' # _stream_sessions => StepperHoldsLock]_vars

\* C12: no step that switches the LED is taken by a thread that holds
\* _stream_lock.
C12_NoLedCallUnderLock ==
    [][led' # led => ~StepperHoldsLock]_vars

\* no request that changes the LED is being served: every stream thread is
\* idle or has returned its response, no stop-all and no flash is running and
\* the watchdog is asleep
NoLedOperation ==
    /\ \A t \in Threads : pc[t] \in {"idle", "gen", "capture", "on_frame", "yield"}
    /\ admin_pc = "idle"
    /\ flash_pc = "idle"
    /\ wd_pc = "sleep"

\* C19: while no LED-changing operation is in progress, the led_on answered
\* by /camera/stream/state and the led_on answered by /led/status both equal
\* the state of the pin.
C19_QueriesMatchLed ==
    NoLedOperation =>
        /\ camera_stream_state_led_on = led
        /\ led_status_led_on = led

\* C20: the watchdog never waits for _stream_lock while holding it, so every
\* scan ends and gives the lock back.
C20_ScanReleasesLock ==
    ~(wd_pc = "blocked" /\ _stream_lock = Watchdog)

\* no stream request is between its first and its last write, no stop and no
\* stop-all is running
NoStreamOperation ==
    /\ \A t \in Threads : pc[t] \in {"idle", "gen", "capture", "on_frame", "yield"}
    /\ admin_pc = "idle"

InLoop(t) == pc[t] \in {"capture", "on_frame", "yield"}

\* the session of thread t has been stopped: deleted, or marked inactive
Stopped(t) ==
    \/ ~Has(_stream_sessions, session_id[t])
    \/ ~_stream_sessions[session_id[t]].active

Quiescent ==
    /\ \A t \in Threads : pc[t] = "idle"
    /\ admin_pc = "idle"
    /\ wd_pc = "sleep"

\* C21: whenever the session table is empty and nothing is in progress, the
\* LED is off: a start that races with stop-all does not leave it on.
C21_LedOffWhenEmpty ==
    (Quiescent /\ DOMAIN _stream_sessions = {}) => ~led

\* a healthy session at time t0: its last heartbeat is at most T_idle old, or
\* it has no heartbeat and was created at most T_start ago
Healthy(s, t0) ==
    \/ s.last_yield # None /\ t0 - s.last_yield <= T_idle
    \/ s.last_yield = None /\ t0 - s.created <= T_start

\* the watchdog takes a step: a scan ends, or blocks
ScanStep == wd_pc' # wd_pc \/ next_scan' # next_scan

====
